---- MODULE Spec2Model ----
(***************************************************************************)
(* Model of src/main.cpp: colour-object detection and following for the    *)
(* Parrot AR.Drone.  One control cycle of main's loop is split at the      *)
(* places the program counter can be observed:                             *)
(*   "start" -> Startup (loadConfigValues before the loop)                 *)
(*   "wait"  -> waitKey: TrackbarMove, KeyPress, OtherKey or Escape        *)
(*   "detect"-> Detect (cap >> frame; detectObject)                        *)
(*   "follow"-> Follow (the if (detected) / if (follow) block)             *)
(*   "stats" -> EndCycle (overlay, imshow, msleep)                         *)
(*   "exit"  -> the loop was left by ESC and saveConfigValues has run      *)
(*                                                                         *)
(* Velocities are doubles in the source.  Every value the program ever     *)
(* assigns is a multiple of 1/4000 (1.0, 0.3, 0.1, n/250, n/200, n/400,    *)
(* n/800 for integer n), so a velocity v is held as the integer 4000*v.    *)
(* area is the zeroth moment of an 8-bit image whose foreground is 255,    *)
(* i.e. 255 times the number of foreground pixels: an integer.             *)
(***************************************************************************)
EXTENDS Integers, Sequences, FiniteSets, TLC

\* ------------------------------------------------------------------ bounds
\* Number of inputs (keys other than ESC that change the program's state,
\* trackbar moves) the operator makes in a run.
MaxInputs == 3
\* Length at which the auto-land episode counter saturates.
MaxEpisode == 3
\* Largest deadzone size of the control-law specification.
MaxDeadzone == 700
\* Largest max_area of the area-law specification.
MaxMaxArea == 110

\* --------------------------------------------------------- program constants
WIDTH == 640
HEIGHT == 360
\* area thresholds are min_area * 100000 and max_area * 100000
AreaScale == 100000
\* margin added to max_area in the front camera back-off test
BackOffMargin == 10
\* pixel value of the filled contour in the image handed to moments()
Foreground == 255
\* 1.0 in units of 1/4000
One == 4000
\* 0.3 and 0.1 in units of 1/4000
Approach == 1200
Descent == 400
\* divisors of the four proportional laws
DivVz == 250
DivVr == 200
DivVx == 400
DivVy == 800

VARIABLES
    pc,             \* position of main
    camera,         \* 0 front, 1 bottom
    follow,
    auto_land,
    detected,
    pos_x,
    pos_y,
    area,
    frame_contours, \* observer: the contours detectObject found in this cycle's frame
    cfg,            \* the ten configuration globals, by their source names
    vx, vy, vz, vr, \* velocity setpoints, in 1/4000
    files,          \* files[0] front_camera_config.xml, files[1] bottom_camera_config.xml
    landing_calls,  \* ardrone.landing() calls made by followObject in this cycle
    velocity_calls, \* calls handing (vx, vy, vz, vr) to ardrone in this cycle
    episode,        \* observer: the current auto-land episode
    roundtrip,      \* observer: camera toggles since the last front-mode snapshot
    inputs          \* observer: inputs the operator has made so far

vars == <<pc, camera, follow, auto_land, detected, pos_x, pos_y, area, frame_contours, cfg,
          vx, vy, vz, vr, files, landing_calls, velocity_calls, episode,
          roundtrip, inputs>>

\* ----------------------------------------------------------------- helpers
\* C integer division truncates toward zero.
CDiv(a, b) == IF a >= 0 THEN a \div b ELSE -((-a) \div b)

\* offset / -divisor as a double, in units of 1/4000 (exact: divisor | 4000)
Proportional(offset, divisor) == -(offset * (One \div divisor))

\* the ten globals of lines 26-35 with their initializers
DefaultConfig ==
    [deadzone_x |-> 320, deadzone_y |-> 180, min_area |-> 0, max_area |-> 500,
     hue_low |-> 0, hue_high |-> 179, sat_low |-> 0, sat_high |-> 255,
     val_low |-> 0, val_high |-> 255]

\* key of the XML file -> global it is read into / written from
ConfigKeys ==
    [HueLOW |-> "hue_low", HueHIGH |-> "hue_high",
     SaturationLOW |-> "sat_low", SaturationHIGH |-> "sat_high",
     ValueLOW |-> "val_low", ValueHIGH |-> "val_high",
     AreaMIN |-> "min_area", AreaMAX |-> "max_area",
     DeadzoneX |-> "deadzone_x", DeadzoneY |-> "deadzone_y"]

\* a file that does not exist (or holds no key)
NoFile == [k \in {} |-> 0]

\* fs[key] >> global : cv::FileNode's operator>> reads with the default
\* int(), so a key that is absent (or a file that could not be opened)
\* stores 0 in the global.
ReadInt(fs, key) == IF key \in DOMAIN fs THEN fs[key] ELSE 0

\* the file loadConfigValues / saveConfigValues opens for a camera
ConfigFile(cam) == cam

loadConfigValues(cam, fls) ==
    LET fs == fls[ConfigFile(cam)]
    IN  [g \in DOMAIN DefaultConfig |->
            LET key == CHOOSE k \in DOMAIN ConfigKeys : ConfigKeys[k] = g
            IN  ReadInt(fs, key)]

\* mutant: AreaMAX is written from min_area
saveConfigValues_mixedKeys(cam, c, fls) ==
    [fls EXCEPT ![ConfigFile(cam)] =
        [k \in DOMAIN ConfigKeys |->
            IF k = "AreaMAX" THEN c.min_area ELSE c[ConfigKeys[k]]]]

saveConfigValues(cam, c, fls) ==
    [fls EXCEPT ![ConfigFile(cam)] = [k \in DOMAIN ConfigKeys |-> c[ConfigKeys[k]]]]


\* -------------------------------------------------------------- detection
\* A frame is held as what findContours returns for its mask, i.e. after
\* inRange and the 3x3 closing: the external contours in scan order.  A
\* contour carries contourArea (contour_area), the number of pixels that
\* drawContours(..., CV_FILLED) sets for it (pixels) and the sums of the x and
\* of the y coordinates of those pixels (sx, sy).
Region(ca, n, cx, cy) == [contour_area |-> ca, pixels |-> n, sx |-> n * cx, sy |-> n * cy]

\* the loop of lines 283-290; ids are 0-based as in the source, -1 is "none"
RECURSIVE ScanContours(_, _, _, _)
ScanContours(contours, i, id, max_area) ==
    IF i >= Len(contours) THEN id
    ELSE IF contours[i + 1].contour_area > max_area
         THEN ScanContours(contours, i + 1, i, contours[i + 1].contour_area)
         ELSE ScanContours(contours, i + 1, id, max_area)

LargestContour(contours) == ScanContours(contours, 0, -1, 0)

\* drawContours(result, contours, id, 255, CV_FILLED): a negative id draws
\* every contour of the vector
DrawnContours(contours, id) ==
    IF id < 0 THEN 1..Len(contours) ELSE {id + 1}

RECURSIVE SumOver(_, _, _)
SumOver(contours, ids, field) ==
    IF ids = {} THEN 0
    ELSE LET i == CHOOSE j \in ids : TRUE
         IN  contours[i][field] + SumOver(contours, ids \ {i}, field)

\* moments(result) of the grey image (foreground 255): m00 = 255 * n,
\* m10 = 255 * sx, m01 = 255 * sy.  The first moments are kept without the
\* common factor 255, which cancels in m10 / m00 and m01 / m00.
ImageMoments(contours, id) ==
    LET ids == DrawnContours(contours, id)
    IN  [m00 |-> Foreground * SumOver(contours, ids, "pixels"),
         n   |-> SumOver(contours, ids, "pixels"),
         sx  |-> SumOver(contours, ids, "sx"),
         sy  |-> SumOver(contours, ids, "sy")]

\* mutant: the detection also rejects areas above max_area
Found_bounded(a, c) ==
    a > c.min_area * AreaScale /\ a <= c.max_area * AreaScale

\* the test of line 303
Found(a, c) == a > c.min_area * AreaScale

\* mutant: the position is written whether or not the object is found
detectObject_alwaysWrites(contours, c, px, py) ==
    LET m == ImageMoments(contours, LargestContour(contours))
    IN  [ret |-> IF Found(m.m00, c) THEN 1 ELSE 0,
         pos_x |-> IF m.n > 0 THEN m.sx \div m.n ELSE px,
         pos_y |-> IF m.n > 0 THEN m.sy \div m.n ELSE py,
         area |-> m.m00]

\* detectObject: the return value and the globals it leaves
detectObject(contours, c, px, py) ==
    LET m == ImageMoments(contours, LargestContour(contours))
    IN  IF Found(m.m00, c)
        THEN [ret |-> 1, pos_x |-> m.sx \div m.n, pos_y |-> m.sy \div m.n,
              area |-> m.m00]
        ELSE [ret |-> 0, pos_x |-> px, pos_y |-> py, area |-> m.m00]

\* -------------------------------------------------------------- following
\* mutants: the left (the right) edge of the deadzone counts as outside
OutsideDeadzone_leftEdge(pos, size, deadzone) ==
    \/ pos <= CDiv(size - deadzone, 2)
    \/ pos > CDiv(size + deadzone, 2)

OutsideDeadzone_rightEdge(pos, size, deadzone) ==
    \/ pos < CDiv(size - deadzone, 2)
    \/ pos >= CDiv(size + deadzone, 2)

\* the deadzone test of lines 322, 326, 341 and 346 for one axis
OutsideDeadzone(pos, size, deadzone) ==
    \/ pos < CDiv(size - deadzone, 2)
    \/ pos > CDiv(size + deadzone, 2)

\* mutant: the approach test includes area = max_area * 100000
ForwardBack_atMax(a, c, old) ==
    IF a > (c.max_area + BackOffMargin) * AreaScale THEN -Approach
    ELSE IF a <= c.max_area * AreaScale THEN Approach
    ELSE old

\* lines 330-337: the forward/back setpoint of the front camera
ForwardBack(a, c, old) ==
    IF a > (c.max_area + BackOffMargin) * AreaScale THEN -Approach
    ELSE IF a < c.max_area * AreaScale THEN Approach
    ELSE old

\* mutant: auto-land sends the land command whatever the area is
LandingCalls_anyArea(a, c, al) == IF al # 0 THEN 1 ELSE 0

\* lines 351-358: the landing() calls of the bottom camera
LandingCalls(a, c, al) ==
    IF al # 0 /\ a > c.max_area * AreaScale THEN 1 ELSE 0

\* followObject: the setpoints it leaves and the landing() calls it makes
followObject(cam, px, py, a, c, al, v) ==
    IF cam = 0
    THEN [vz |-> IF OutsideDeadzone(py, HEIGHT, c.deadzone_y)
                 THEN Proportional(py - CDiv(HEIGHT, 2), DivVz) ELSE v.vz,
          vr |-> IF OutsideDeadzone(px, WIDTH, c.deadzone_x)
                 THEN Proportional(px - CDiv(WIDTH, 2), DivVr) ELSE v.vr,
          vx |-> ForwardBack(a, c, v.vx),
          vy |-> v.vy,
          landing |-> 0]
    ELSE [vx |-> IF OutsideDeadzone(py, HEIGHT, c.deadzone_y)
                 THEN Proportional(py - CDiv(HEIGHT, 2), DivVx) ELSE v.vx,
          vy |-> IF OutsideDeadzone(px, WIDTH, c.deadzone_x)
                 THEN Proportional(px - CDiv(WIDTH, 2), DivVy) ELSE v.vy,
          vz |-> IF al # 0 THEN -Descent ELSE v.vz,
          vr |-> v.vr,
          landing |-> LandingCalls(a, c, al)]

\* mutant: following no longer waits for a detection
RunsFollow_always(det, fol) == fol # 0

\* the guard of lines 404-411: followObject runs in this cycle
RunsFollow(det, fol) == det # 0 /\ fol # 0


\* ------------------------------------------------------------------ inputs
\* contours the camera can show
Disc  == Region(4900, 5025, 400, 180)      \* disc of radius 40 at (400,180)
Blob  == Region(19600, 20000, 60, 300)     \* area = 51 * 100000 exactly
Near  == Region(380, 400, 318, 180)        \* two pixels left of the centre
DotA  == Region(0, 1, 10, 10)              \* single pixels: contourArea 0
DotB  == Region(0, 1, 630, 350)

Frames == { <<>>, <<Disc>>, <<Blob>>, <<Near, Disc>>, <<DotA, DotB>> }

\* configuration files the program can find at start: none (first run), a
\* complete one, or one that lacks keys
FrontFile ==
    [HueLOW |-> 0, HueHIGH |-> 179, SaturationLOW |-> 0, SaturationHIGH |-> 255,
     ValueLOW |-> 0, ValueHIGH |-> 255, AreaMIN |-> 0, AreaMAX |-> 51,
     DeadzoneX |-> 320, DeadzoneY |-> 180]
PartialFile ==
    [HueLOW |-> 20, HueHIGH |-> 40, AreaMAX |-> 5, DeadzoneX |-> 3]

FrontFiles == {NoFile, FrontFile}
BottomFiles == {NoFile, PartialFile}

\* the trackbars of controlWindow: global -> largest position
Trackbars ==
    [hue_low |-> 179, hue_high |-> 179, sat_low |-> 255, sat_high |-> 255,
     val_low |-> 255, val_high |-> 255, min_area |-> 500, max_area |-> 500]

\* positions the operator drags a trackbar to
TrackbarStops(g) == {51} \cap (0..Trackbars[g])

\* keys waitKey can return (ESC is the action Escape, "none" is the timeout)
ModeKeys == {"c", "f", "l"}
ManualKeys == {"w", "s", "a", "d", "q", "e", "i", "k"}
DroneKeys == {" ", "v", "t", "p"}

\* !x of C
Not(x) == IF x = 0 THEN 1 ELSE 0

NoRoundtrip == [n |-> 0, X |-> DefaultConfig]
NoEpisode == [len |-> 0, lands |-> 0]

\* ------------------------------------------------------------------- state
\* the globals after static initialisation, before main runs
Init ==
    /\ pc = "start"
    /\ camera = 0 /\ follow = 0 /\ auto_land = 0 /\ detected = 0
    /\ pos_x = 0 /\ pos_y = 0 /\ area = 0
    /\ frame_contours = <<>>
    /\ cfg = DefaultConfig
    /\ vx = 0 /\ vy = 0 /\ vz = 0 /\ vr = 0
    /\ files \in [{0, 1} -> FrontFiles \cup BottomFiles]
    /\ files[0] \in FrontFiles /\ files[1] \in BottomFiles
    /\ landing_calls = 0 /\ velocity_calls = 0
    /\ episode = NoEpisode
    /\ roundtrip = NoRoundtrip
    /\ inputs = 0

\* main, lines 385-387
Startup ==
    /\ pc = "start"
    /\ cfg' = loadConfigValues(camera, files)
    /\ pc' = "wait"
    /\ UNCHANGED <<camera, follow, auto_land, detected, pos_x, pos_y, area, frame_contours,
                   vx, vy, vz, vr, files, landing_calls, velocity_calls,
                   episode, roundtrip, inputs>>

\* The operator drags a trackbar while waitKey runs the GUI events: highgui
\* writes the position into the bound global (lines 214-221).
TrackbarMove(g, position) ==
    /\ pc = "wait"
    /\ inputs < MaxInputs
    /\ cfg[g] # position
    /\ cfg' = [cfg EXCEPT ![g] = position]
    /\ inputs' = inputs + 1
    /\ roundtrip' = NoRoundtrip
    /\ UNCHANGED <<pc, camera, follow, auto_land, detected, pos_x, pos_y, area, frame_contours,
                   vx, vy, vz, vr, files, landing_calls, velocity_calls,
                   episode>>

\* mutant: a camera toggle resets the setpoints
ManualSetpoint_resetOnToggle(key, plus, minus, old) ==
    IF key = "c" THEN 0
    ELSE IF key = plus THEN One ELSE IF key = minus THEN -One ELSE old

\* the setpoint a manual flight key writes (lines 245-252), else the old one
ManualSetpoint(key, plus, minus, old) ==
    IF key = plus THEN One ELSE IF key = minus THEN -One ELSE old

\* mutant: the toggle forgets to save the mode it leaves
ToggleCamera_noSave(cam, c, fls) ==
    [camera |-> Not(cam), files |-> fls, cfg |-> loadConfigValues(Not(cam), fls)]

\* mutant: the toggle flips the camera before it saves
ToggleCamera_flipFirst(cam, c, fls) ==
    LET next  == Not(cam)
        saved == saveConfigValues(next, c, fls)
    IN  [camera |-> next, files |-> saved, cfg |-> loadConfigValues(next, saved)]

\* the camera toggle of lines 237-244: files and globals it leaves
ToggleCamera(cam, c, fls) ==
    LET saved == saveConfigValues(cam, c, fls)
        next  == Not(cam)
    IN  [camera |-> next, files |-> saved, cfg |-> loadConfigValues(next, saved)]

\* keyFunctions(key); key = "none" is waitKey's -1
keyFunctions(key) ==
    /\ IF key = "c"
       THEN LET t == ToggleCamera(camera, cfg, files)
            IN  /\ camera' = t.camera
                /\ files' = t.files
                /\ cfg' = t.cfg
                /\ roundtrip' =
                       IF camera = 0 THEN [n |-> 1, X |-> cfg]
                       ELSE IF roundtrip.n = 1 THEN [roundtrip EXCEPT !.n = 2]
                       ELSE NoRoundtrip
       ELSE UNCHANGED <<camera, files, cfg, roundtrip>>
    /\ vx' = ManualSetpoint(key, "w", "s", vx)
    /\ vr' = ManualSetpoint(key, "a", "d", vr)
    /\ vy' = ManualSetpoint(key, "q", "e", vy)
    /\ vz' = ManualSetpoint(key, "i", "k", vz)
    /\ follow' = IF key = "f" THEN Not(follow) ELSE follow
    /\ auto_land' = IF key = "l" THEN Not(auto_land) ELSE auto_land

\* lines 391-393: waitKey returns `key` (not ESC) and a new cycle begins
BeginCycle(key) ==
    /\ pc = "wait"
    /\ keyFunctions(key)
    /\ pc' = "detect"
    /\ landing_calls' = 0 /\ velocity_calls' = 0
    /\ UNCHANGED <<detected, pos_x, pos_y, area, frame_contours, episode>>

\* a key that changes the program's state
KeyPress(key) ==
    /\ inputs < MaxInputs
    /\ BeginCycle(key)
    /\ inputs' = inputs + 1

\* a key that only talks to the drone (space, v, t, p), or waitKey's timeout
OtherKey(key) ==
    /\ BeginCycle(key)
    /\ UNCHANGED inputs

\* line 392 and line 430
Escape ==
    /\ pc = "wait"
    /\ files' = saveConfigValues(camera, cfg, files)
    /\ pc' = "exit"
    /\ UNCHANGED <<camera, follow, auto_land, detected, pos_x, pos_y, area, cfg,
                   vx, vy, vz, vr, landing_calls, velocity_calls, episode,
                   roundtrip, inputs, frame_contours>>

\* mutant: the keyboard is polled again after the capture and an f that
\* arrives there toggles following between detection and followObject
Detect_pollsKeys(frame) ==
    /\ pc = "detect"
    /\ LET d == detectObject(frame, cfg, pos_x, pos_y)
       IN  /\ detected' = d.ret
           /\ pos_x' = d.pos_x
           /\ pos_y' = d.pos_y
           /\ area' = d.area
    /\ frame_contours' = frame
    /\ follow' \in {follow, Not(follow)}
    /\ pc' = "follow"
    /\ UNCHANGED <<camera, auto_land, cfg, vx, vy, vz, vr, files,
                   landing_calls, velocity_calls, episode, roundtrip,
                   inputs>>

\* lines 395-402
Detect(frame) ==
    /\ pc = "detect"
    /\ LET d == detectObject(frame, cfg, pos_x, pos_y)
       IN  /\ detected' = d.ret
           /\ pos_x' = d.pos_x
           /\ pos_y' = d.pos_y
           /\ area' = d.area
    /\ frame_contours' = frame
    /\ pc' = "follow"
    /\ UNCHANGED <<camera, follow, auto_land, cfg, vx, vy, vz, vr, files,
                   landing_calls, velocity_calls, episode, roundtrip,
                   inputs>>

\* the cycle belongs to an auto-land episode
InEpisode ==
    /\ camera = 1 /\ follow # 0 /\ auto_land # 0 /\ detected # 0
    /\ area > cfg.max_area * AreaScale

Saturate(n) == IF n > MaxEpisode THEN MaxEpisode ELSE n

\* lines 404-412
Follow ==
    /\ pc = "follow"
    /\ IF RunsFollow(detected, follow)
       THEN LET f == followObject(camera, pos_x, pos_y, area, cfg, auto_land,
                                  [vx |-> vx, vy |-> vy, vz |-> vz, vr |-> vr])
            IN  /\ vx' = f.vx /\ vy' = f.vy /\ vz' = f.vz /\ vr' = f.vr
                /\ landing_calls' = landing_calls + f.landing
       ELSE UNCHANGED <<vx, vy, vz, vr, landing_calls>>
    /\ episode' = IF InEpisode
                  THEN [len |-> Saturate(episode.len + 1),
                        lands |-> Saturate(episode.lands + landing_calls')]
                  ELSE NoEpisode
    /\ frame_contours' = <<>>
    /\ pc' = "stats"
    /\ UNCHANGED <<camera, follow, auto_land, detected, pos_x, pos_y, area, cfg,
                   files, velocity_calls, roundtrip, inputs>>

\* lines 414-427
EndCycle ==
    /\ pc = "stats"
    /\ pc' = "wait"
    /\ UNCHANGED <<camera, follow, auto_land, detected, pos_x, pos_y, area, cfg,
                   vx, vy, vz, vr, files, landing_calls, velocity_calls,
                   episode, roundtrip, inputs, frame_contours>>

Next ==
    \/ Startup
    \/ \E g \in DOMAIN Trackbars : \E position \in TrackbarStops(g) : TrackbarMove(g, position)
    \/ \E key \in ModeKeys \cup ManualKeys : KeyPress(key)
    \/ \E key \in DroneKeys \cup {"none"} : OtherKey(key)
    \/ Escape
    \/ \E frame \in Frames : Detect(frame)
    \/ Follow
    \/ EndCycle

Spec == Init /\ [][Next]_vars


\* ----------------------------------------------- control-law specification
\* followObject on its whole input range: the state at line 408 of a cycle
\* that has detected the object with following on, with
\*   - the centroid at the frame centre and every deadzone size up to
\*     MaxDeadzone, or
\*   - the centroid anywhere on the horizontal or the vertical centre line
\*     and the deadzone sizes of LawDeadzones,
\* and the setpoints either untouched (0) or as the manual keys leave them.
LawDeadzones == {0, 1, 2, 3, 180, 320, 639, 640, 641}

LawInputs ==
    {[x |-> WIDTH \div 2, y |-> HEIGHT \div 2, dx |-> d, dy |-> e] :
        d \in 0..MaxDeadzone, e \in {0, 1, 180}}
    \cup {[x |-> x, y |-> HEIGHT \div 2, dx |-> d, dy |-> 180] :
        x \in 0..(WIDTH - 1), d \in LawDeadzones}
    \cup {[x |-> WIDTH \div 2, y |-> y, dx |-> 320, dy |-> d] :
        y \in 0..(HEIGHT - 1), d \in LawDeadzones}

InitLaw ==
    /\ pc = "follow"
    /\ camera \in {0, 1} /\ follow = 1 /\ auto_land \in {0, 1} /\ detected = 1
    /\ area = Foreground * Disc.pixels
    /\ frame_contours = <<Disc>>
    /\ \E in \in LawInputs :
          /\ pos_x = in.x /\ pos_y = in.y
          /\ cfg = [DefaultConfig EXCEPT !.deadzone_x = in.dx, !.deadzone_y = in.dy]
    /\ \E old \in {0, One} : vx = old /\ vy = old /\ vz = old /\ vr = old
    /\ files = [cam \in {0, 1} |-> NoFile]
    /\ landing_calls = 0 /\ velocity_calls = 0
    /\ episode = NoEpisode
    /\ roundtrip = NoRoundtrip
    /\ inputs = 0

NextLaw == Follow

SpecLaw == InitLaw /\ [][NextLaw]_vars


\* ------------------------------------------------------------------ claims
Abs(n) == IF n < 0 THEN -n ELSE n

\* followObject ran in the cycle that is at its end
FollowRan == pc = "stats" /\ detected # 0 /\ follow # 0

\* C1: in BOTTOM mode with following and auto-land on, a run of consecutive
\* cycles that detect the object with area above max_area * 100000 issues
\* the land command exactly once, not once per cycle.
C1_LandOncePerEpisode == episode.len >= 1 => episode.lands = 1

\* C2: in every cycle in which detection succeeds and following is on, the
\* four setpoints are handed to the flight command sink exactly once after
\* followObject has updated them.
C2_SetpointsHandedOnce == FollowRan => velocity_calls = 1

\* C3: after any sequence of cycles and key presses, each of vx, vy, vz, vr
\* lies in [-1.0, 1.0].
C3_SetpointsNormalized ==
    \A v \in {vx, vy, vz, vr} : -One <= v /\ v <= One

\* C4: starting in FRONT mode with active configuration X, two consecutive
\* camera toggles with no trackbar move in between end in FRONT mode with
\* the active configuration equal to X, whatever the BOTTOM file held.
C4_ToggleRoundTrip ==
    roundtrip.n = 2 => camera = 0 /\ cfg = roundtrip.X

\* a front configuration the operator had adjusted went through a BOTTOM
\* mode whose file was absent (it was written with the zeros loaded from it)
C4_Witness ==
    /\ roundtrip.n = 2
    /\ roundtrip.X.hue_high = 179 /\ roundtrip.X.hue_low = 51
    /\ files[1] = [k \in DOMAIN ConfigKeys |-> 0]

\* the values the specification calls permissive
Permissive ==
    [hue_low |-> 0, hue_high |-> 179, sat_low |-> 0, sat_high |-> 255,
     val_low |-> 0, val_high |-> 255, deadzone_x |-> 0, deadzone_y |-> 0]

\* the active configuration is as loadConfigValues left it, and the file it
\* was loaded from is still as it was then
FreshlyLoaded ==
    /\ pc \in {"wait", "detect", "follow", "stats"}
    /\ inputs = 0 \/ roundtrip.n = 1

\* C5: when the file of the mode being entered, or a key of it, is absent,
\* loadConfigValues leaves the colour bounds at full range (hue 0..179,
\* saturation and value 0..255) and the deadzone at size zero.
C5_AbsentKeysArePermissive ==
    FreshlyLoaded =>
        \A k \in DOMAIN ConfigKeys :
            (k \notin DOMAIN files[camera] /\ ConfigKeys[k] \in DOMAIN Permissive)
                => cfg[ConfigKeys[k]] = Permissive[ConfigKeys[k]]

\* C6: in a cycle in which detectObject returns 0, followObject is not
\* invoked: vx, vy, vz, vr stay as they are and no land command is issued,
\* whatever camera, follow and auto_land are.
C6_NoDetectionNoFollow ==
    [][(pc = "follow" /\ detected = 0)
          => /\ vx' = vx /\ vy' = vy /\ vz' = vz /\ vr' = vr
             /\ landing_calls' = landing_calls]_vars

\* a cycle without detection ended in BOTTOM mode with following and
\* auto-land on, the flags under which followObject would have acted
C6_Witness ==
    /\ pc = "stats" /\ detected = 0
    /\ camera = 1 /\ follow # 0 /\ auto_land # 0
    /\ landing_calls = 0

\* the position is inside the deadzone on an axis: not left of
\* (size - deadzone) / 2 and not right of (size + deadzone) / 2
InsideOn(pos, size, deadzone) ==
    /\ pos >= CDiv(size - deadzone, 2)
    /\ pos <= CDiv(size + deadzone, 2)

\* C7: when followObject runs and the position is inside the deadzone on an
\* axis, the setpoint driven by that axis (FRONT: vr for x, vz for y;
\* BOTTOM: vy for x, vx for y) keeps its previous value.
C7_CoastInsideDeadzone ==
    [][(pc = "follow" /\ detected # 0 /\ follow # 0)
          => /\ InsideOn(pos_x, WIDTH, cfg.deadzone_x)
                  => IF camera = 0 THEN vr' = vr ELSE vy' = vy
             /\ InsideOn(pos_y, HEIGHT, cfg.deadzone_y)
                  => IF camera = 0 THEN vz' = vz ELSE vx' = vx]_vars

\* centroid (400,180), deadzone 320x180, FRONT mode: followObject has run
\* and the non-zero yaw and vertical setpoints are still there
C7_Witness ==
    /\ FollowRan /\ camera = 0
    /\ pos_x = 400 /\ pos_y = 180
    /\ cfg.deadzone_x = 320 /\ cfg.deadzone_y = 180
    /\ vr = One /\ vz = One

\* the yaw-rate setpoint followObject computes in FRONT mode for the
\* horizontal offset d from the frame centre, given the one before
YawFor(d, old) ==
    followObject(0, WIDTH \div 2 + d, HEIGHT \div 2, area, cfg, auto_land,
                 [vx |-> vx, vy |-> vy, vz |-> vz, vr |-> old]).vr

\* C8: in FRONT mode, for a centroid at (W/2 + D, H/2) with |D| larger than
\* half the deadzone width, followObject sets vr to a value whose sign is
\* opposite to that of D and whose magnitude is strictly increasing in |D|.
C8_YawLaw ==
    LET D == pos_x - WIDTH \div 2
    IN  (FollowRan /\ camera = 0 /\ pos_y = HEIGHT \div 2
            /\ 2 * Abs(D) > cfg.deadzone_x)
        => /\ D > 0 => vr < 0
           /\ D < 0 => vr > 0
           /\ \A e \in (-(WIDTH \div 2))..(WIDTH \div 2 - 1) :
                 (2 * Abs(e) > cfg.deadzone_x /\ Abs(e) < Abs(D))
                     => Abs(YawFor(e, 0)) < Abs(vr)

\* C9: for position (W/2, H/2) and every non-negative deadzone size, odd
\* sizes included, both axis tests are false: followObject changes none of
\* the proportional setpoints, in either camera mode.
C9_CentreIsInside ==
    [][(pc = "follow" /\ detected # 0 /\ follow # 0
            /\ pos_x = WIDTH \div 2 /\ pos_y = HEIGHT \div 2)
          => IF camera = 0 THEN vz' = vz /\ vr' = vr
                           ELSE vx' = vx /\ vy' = vy]_vars

\* followObject has run at the frame centre with a zero-width, odd-height
\* deadzone and the non-zero proportional setpoints are still there
C9_Witness ==
    /\ FollowRan /\ camera = 1
    /\ pos_x = WIDTH \div 2 /\ pos_y = HEIGHT \div 2
    /\ cfg.deadzone_x = 0 /\ cfg.deadzone_y = 1
    /\ vx = One /\ vy = One

\* C10: detectObject returns 1 if and only if the measured area strictly
\* exceeds min_area * 100000, with no upper bound, and a mask without
\* foreground (area 0) is never found.
C10_FoundIffAboveMin ==
    pc = "follow"
        => /\ detected \in {0, 1}
           /\ detected = 1 <=> area > cfg.min_area * AreaScale
           /\ area = 0 => detected = 0

\* an area exactly at a non-zero threshold was measured and not found
C10_Witness ==
    /\ pc = "follow" /\ detected = 0
    /\ area > 0 /\ area = cfg.min_area * AreaScale


\* the complete record of a configuration
RecordOf(c) == [k \in DOMAIN ConfigKeys |-> c[ConfigKeys[k]]]

\* C11: the control loop stops only at a cycle boundary (the ESC test at the
\* start of a cycle), and when it stops the active configuration, with every
\* adjustment made since the last save, is written to the file of the
\* current camera mode.
C11_ExitSavesAtBoundary ==
    [][(pc # "exit" /\ pc' = "exit")
          => /\ pc = "wait"
             /\ camera' = camera /\ cfg' = cfg
             /\ files'[camera] = RecordOf(cfg)
             /\ files'[1 - camera] = files[1 - camera]]_vars

\* the program has stopped in FRONT mode after a trackbar move that the
\* file did not hold, and the file holds it
C11_Witness ==
    /\ pc = "exit" /\ camera = 0
    /\ cfg.hue_low = 51 /\ cfg.hue_high = 179
    /\ files[0] = RecordOf(cfg)

\* C12: the file of a camera mode is only ever overwritten with the
\* configuration that is active while that mode is the current one: a toggle
\* saves under the mode it leaves, then flips, then loads the file of the
\* mode it enters.
C12_FilesBelongToMode ==
    [][/\ \A m \in {0, 1} :
            files'[m] # files[m] => camera = m /\ files'[m] = RecordOf(cfg)
       /\ camera' # camera
            => /\ files'[camera] = RecordOf(cfg)
               /\ \A k \in DOMAIN ConfigKeys :
                     cfg'[ConfigKeys[k]] =
                        IF k \in DOMAIN files'[camera'] THEN files'[camera'][k] ELSE 0]_vars

\* BOTTOM mode is current, the front file holds the adjustment made in FRONT
\* mode and the active configuration is not the front one
C12_Witness ==
    /\ camera = 1
    /\ DOMAIN files[0] = DOMAIN ConfigKeys /\ files[0]["SaturationLOW"] = 51
    /\ cfg.sat_low # 51


\* the region the specification selects: the first of greatest contour area
FirstLargest(cs) ==
    IF cs = <<>> THEN {}
    ELSE {CHOOSE i \in 1..Len(cs) :
             /\ \A j \in 1..Len(cs) : cs[j].contour_area <= cs[i].contour_area
             /\ \A j \in 1..(i - 1) : cs[j].contour_area < cs[i].contour_area}

\* the selections the claim allows: that region, or none when no region
\* encloses any area
AllowedSelections(cs) ==
    {FirstLargest(cs)}
        \cup (IF \A j \in 1..Len(cs) : cs[j].contour_area = 0 THEN {{}} ELSE {})

\* C13: the area and the centroid detectObject computes come from exactly
\* one region, the first of greatest contour area, and from no region when
\* none is selected; pixels of other regions never contribute, also when
\* every region has contour area zero.
C13_OneRegionMeasured ==
    pc = "follow"
        => \E sel \in AllowedSelections(frame_contours) :
              /\ area = Foreground * SumOver(frame_contours, sel, "pixels")
              /\ detected = 1
                    => \E i \in sel :
                          /\ pos_x = frame_contours[i].sx \div frame_contours[i].pixels
                          /\ pos_y = frame_contours[i].sy \div frame_contours[i].pixels


\* -------------------------------------------------- area-law specification
\* followObject on the inputs of its area tests: the state at line 408 of a
\* cycle that has detected the object at the frame centre with following on,
\* with every max_area up to MaxMaxArea and areas below, at and above the
\* thresholds (255 * 20000 = 51 * 100000, 255 * 40000 = 102 * 100000).
AreaPixels == {1, 5025, 19999, 20000, 20001, 40000, 200000}

InitArea ==
    /\ pc = "follow"
    /\ camera \in {0, 1} /\ follow = 1 /\ auto_land \in {0, 1} /\ detected = 1
    /\ \E n \in AreaPixels :
          /\ area = Foreground * n
          /\ frame_contours = <<Region(n, n, WIDTH \div 2, HEIGHT \div 2)>>
    /\ pos_x = WIDTH \div 2 /\ pos_y = HEIGHT \div 2
    /\ \E m \in 0..MaxMaxArea : cfg = [DefaultConfig EXCEPT !.max_area = m]
    /\ \E old \in {0, One, -One} : vx = old /\ vy = old /\ vz = old /\ vr = old
    /\ files = [cam \in {0, 1} |-> NoFile]
    /\ landing_calls = 0 /\ velocity_calls = 0
    /\ episode = NoEpisode
    /\ roundtrip = NoRoundtrip
    /\ inputs = 0

SpecArea == InitArea /\ [][NextLaw]_vars

\* C14: when followObject runs in FRONT mode, vx becomes 0.3 if
\* area < max_area * 100000, -0.3 if area > (max_area + 10) * 100000, and
\* keeps its value when area lies between the two thresholds, inclusive;
\* the two conditions are never both true.
C14_ForwardBackLaw ==
    [][(pc = "follow" /\ detected # 0 /\ follow # 0 /\ camera = 0)
          => LET below == area < cfg.max_area * AreaScale
                 above == area > (cfg.max_area + BackOffMargin) * AreaScale
             IN  /\ ~(below /\ above)
                 /\ below => vx' = Approach
                 /\ above => vx' = -Approach
                 /\ (~below /\ ~above) => vx' = vx]_vars

\* followObject has run in FRONT mode with the area exactly at
\* max_area * 100000 and the manual forward setpoint is still there
C14_Witness ==
    /\ FollowRan /\ camera = 0
    /\ area = cfg.max_area * AreaScale /\ area > 0
    /\ vx = One


\* C15: the controller issues the land command only in a cycle in which the
\* camera is BOTTOM, following and auto-land are on, the object is detected
\* and area > max_area * 100000; whenever followObject runs in BOTTOM mode,
\* vz becomes the descent rate -0.1 if auto-land is on, and with auto-land
\* off vz keeps its value and no land command is issued.
C15_LandOnlyWhenLow ==
    [][/\ landing_calls' > landing_calls
            => /\ pc = "follow" /\ camera = 1
               /\ follow # 0 /\ auto_land # 0 /\ detected # 0
               /\ area > cfg.max_area * AreaScale
       /\ (pc = "follow" /\ detected # 0 /\ follow # 0 /\ camera = 1)
            => IF auto_land # 0
               THEN vz' = -Descent
               ELSE vz' = vz /\ landing_calls' = landing_calls]_vars

\* followObject has run in BOTTOM mode with auto-land on and the object
\* still small: the drone descends and no land command was issued
C15_Witness ==
    /\ FollowRan /\ camera = 1 /\ auto_land # 0
    /\ area > 0 /\ area <= cfg.max_area * AreaScale
    /\ vz = -Descent /\ landing_calls = 0

\* the regions whose pixels moments() sees in this cycle's frame
MeasuredRegions(cs) == DrawnContours(cs, LargestContour(cs))

\* C16: pos_x and pos_y are written only in a cycle in which detectObject
\* returns 1, with the centroid it measured; when it returns 0 the position
\* keeps the value of the last successful detection while area is
\* overwritten with the current measurement.
C16_PositionOnlyWhenFound ==
    [][/\ (pos_x' # pos_x \/ pos_y' # pos_y) => (pc = "detect" /\ detected' = 1)
       /\ pc = "detect"
            => LET cs == frame_contours'
                   n  == SumOver(cs, MeasuredRegions(cs), "pixels")
               IN  /\ area' = Foreground * n
                   /\ detected' = 1
                        => /\ pos_x' = SumOver(cs, MeasuredRegions(cs), "sx") \div n
                           /\ pos_y' = SumOver(cs, MeasuredRegions(cs), "sy") \div n]_vars

\* an object was measured and not found, and the position is still the
\* centroid of the disc found before
C16_Witness ==
    /\ pc = "follow" /\ detected = 0
    /\ area = Foreground * Blob.pixels
    /\ pos_x = 400 /\ pos_y = 180


\* C17: the operator's changes (camera toggle with its save and load, follow
\* and auto-land toggles, manual velocity keys, trackbar moves) are applied
\* only at the start of a cycle, before detectObject runs: from detection to
\* the setpoint update one cycle uses one camera mode, configuration and
\* pair of flags.
C17_InputsOnlyAtCycleStart ==
    [][/\ (camera' # camera \/ follow' # follow \/ auto_land' # auto_land
              \/ files' # files) => pc = "wait"
       /\ cfg' # cfg => pc \in {"start", "wait"}
       /\ (vx' # vx \/ vy' # vy \/ vz' # vz \/ vr' # vr) => pc \in {"wait", "follow"}
       /\ (pc = "wait" /\ pc' # "wait") => pc' \in {"detect", "exit"}
       /\ pc = "detect" => pc' = "follow"
       /\ pc = "follow" => pc' = "stats"]_vars

\* a cycle has run detection and followObject in BOTTOM mode with a moved
\* Area MAX trackbar, all put in place by earlier cycle starts
C17_Witness ==
    /\ FollowRan /\ camera = 1
    /\ cfg.max_area = 51 /\ inputs = MaxInputs

\* C18: a camera toggle changes the camera mode and the ten configuration
\* values only: follow, auto_land, the four setpoints and the last known
\* position stay, so a setpoint written by one mode's law persists after
\* the switch.
C18_ToggleLeavesControlState ==
    [][camera' # camera
          => /\ follow' = follow /\ auto_land' = auto_land
             /\ vx' = vx /\ vy' = vy /\ vz' = vz /\ vr' = vr
             /\ pos_x' = pos_x /\ pos_y' = pos_y
             /\ area' = area /\ detected' = detected]_vars

\* BOTTOM mode has just been entered and vr still holds the value the FRONT
\* yaw law wrote (1.3, which no key writes and BOTTOM mode never writes)
C18_Witness ==
    /\ pc = "detect" /\ camera = 1
    /\ vr = Proportional(60 - WIDTH \div 2, DivVr)

\* C19: for non-negative deadzone sizes no operation, manual key or follow
\* controller in either mode, assigns 0 to a velocity setpoint: once vx, vy,
\* vz or vr is non-zero it stays non-zero.
C19_NeverBackToZero ==
    [][/\ vx # 0 => vx' # 0
       /\ vy # 0 => vy' # 0
       /\ vz # 0 => vz' # 0
       /\ vr # 0 => vr' # 0]_vars

\* followObject has run with the centroid on the vertical centre line and a
\* zero-width deadzone, and the yaw setpoint is still non-zero
C19_Witness ==
    /\ FollowRan /\ camera = 0
    /\ pos_x = WIDTH \div 2 /\ cfg.deadzone_x = 0
    /\ vr # 0

====
